---- MODULE Spec2Model ----
(***************************************************************************)
(* Model of the YouTube channel collector: the file-backed deduplicating   *)
(* store (src/src/core/output.py, OutputManager.append / load_existing)    *)
(* and the batch orchestrator (src/batch.py, BatchRunner) that fans the    *)
(* keywords out over a ThreadPoolExecutor; then the parts a keyword task   *)
(* runs through: the configuration it loads, the browser session scope     *)
(* (src/src/core/driver.py, src/src/scrapers/youtube.py) and the channel   *)
(* extractor (src/src/extractors).                                         *)
(*                                                                         *)
(* A Python str is a sequence of pieces.  A piece is either one whitespace *)
(* character (" " or "\n") or a non-empty run of non-whitespace            *)
(* characters ("u1", "channel_url", ...); the runs used form a prefix code *)
(* so two different sequences are two different strings.  The persisted    *)
(* file is the sequence of pieces written to it so far.                    *)
(***************************************************************************)
EXTENDS Integers, Sequences, FiniteSets, TLC

\* ------------------------------------------------------------ bounds
\* keywords read from the keywords file
MaxKeywords == 2
\* largest max_workers tried
MaxWorkers == 2
\* largest target tried
MaxTarget == 2
\* pieces in a candidate string of the store-level specifications
MaxStrLen == 2
\* items in a candidate list of the store-level specifications
MaxListLen == 2
\* calls made by the client of the store-level specification
MaxCalls == 2

\* ------------------------------------------------------------ strings
NL == "\n"
SP == " "
\* the characters str.strip() removes
Whitespace == {SP, NL}

MASTER_FILE == "all_channels.csv"
COLUMN_NAME == <<"channel_url">>

\* canonical channel URLs, as ChannelExtractor returns them
U1 == <<"u1">>
U2 == <<"u2">>
U3 == <<"u3">>
Urls == {U1, U2, U3}

\* all sequences over S of length at most n
SeqsUpTo(S, n) == UNION {[1..k -> S] : k \in 0..n}

Range(s) == {s[i] : i \in DOMAIN s}

NoRepeats(s) == \A i, j \in DOMAIN s : s[i] = s[j] => i = j

RECURSIVE LStrip(_)
LStrip(s) ==
    IF s # <<>> /\ Head(s) \in Whitespace THEN LStrip(Tail(s)) ELSE s

RECURSIVE RStrip(_)
RStrip(s) ==
    IF s # <<>> /\ s[Len(s)] \in Whitespace
    THEN RStrip(SubSeq(s, 1, Len(s) - 1))
    ELSE s

\* value = line.strip()
Strip(s) == RStrip(LStrip(s))

\* for line in f: the text cut after every "\n"; a last line without one is
\* a line too
RECURSIVE FileLines(_)
FileLines(text) ==
    IF text = <<>> THEN <<>>
    ELSE LET ends == {i \in DOMAIN text : text[i] = NL}
         IN  IF ends = {} THEN <<text>>
             ELSE LET e == CHOOSE i \in ends : \A j \in ends : i <= j
                  IN  <<SubSeq(text, 1, e)>>
                        \o FileLines(SubSeq(text, e + 1, Len(text)))

\* the loop that fills 'existing': the stripped lines that are neither empty
\* nor the header
\* faulty variant: the header line is not skipped
KeepLine_NoHeaderSkip(value, column_name) == value # <<>>

KeepLine(value, column_name) == value # <<>> /\ value # column_name

ReadValues(text, column_name) ==
    {v \in {Strip(l) : l \in Range(FileLines(text))} : KeepLine(v, column_name)}

\* f.write(f"{item}\n") for every item, in order
\* faulty variant: the line terminator is forgotten
RECURSIVE WriteLines_NoNewline(_)
WriteLines_NoNewline(items) ==
    IF items = <<>> THEN <<>>
    ELSE Head(items) \o WriteLines_NoNewline(Tail(items))

RECURSIVE WriteLines(_)
WriteLines(items) ==
    IF items = <<>> THEN <<>>
    ELSE Head(items) \o <<NL>> \o WriteLines(Tail(items))

\* OutputManager.load_existing: the persisted file is [exists, text]
load_existing(file, column_name) ==
    IF file.exists THEN ReadValues(file.text, column_name) ELSE {}

\* new_items = [item for item in data if item not in existing]
\* faulty variant: nothing is filtered out
NewItems_NoFilter(data, existing, deduplicate) == data

\* faulty variant: the membership test is inverted
NewItems_Inverted(data, existing, deduplicate) ==
    SelectSeq(data, LAMBDA item : item \in existing)

NewItems(data, existing, deduplicate) ==
    IF deduplicate THEN SelectSeq(data, LAMBDA item : item \notin existing)
    ELSE data

\* faulty variant: the header is written and the items are not
WriteItems_HeaderOnly(file, new_items, column_name) ==
    [exists |-> TRUE,
     text |-> file.text
                \o (IF ~file.exists THEN column_name \o <<NL>> ELSE <<>>)]

\* faulty variant: the header is written by every append that writes
WriteItems_AlwaysHeader(file, new_items, column_name) ==
    [exists |-> TRUE,
     text |-> file.text \o column_name \o <<NL>> \o WriteLines(new_items)]

\* the file after the write of lines 126-132
\* faulty variant: the file is opened with "w" instead of "a"
WriteItems_Truncate(file, new_items, column_name) ==
    [exists |-> TRUE,
     text |-> (IF ~file.exists THEN column_name \o <<NL>> ELSE <<>>)
                \o WriteLines(new_items)]

WriteItems(file, new_items, column_name) ==
    LET write_header == ~file.exists
    IN  [exists |-> TRUE,
         text |-> file.text
                    \o (IF write_header THEN column_name \o <<NL>> ELSE <<>>)
                    \o WriteLines(new_items)]

\* faulty variant: append reports nothing of what it wrote
ReturnValue_Zero(new_items) == 0

\* return len(new_items)
ReturnValue(new_items) == Len(new_items)

\* OutputManager.append run alone from lock to return: the file it leaves and
\* the count it returns
append(file, data, column_name, deduplicate) ==
    LET existing == load_existing(file, column_name)
        new_items == NewItems(data, existing, deduplicate)
    IN  IF new_items = <<>> THEN [file |-> file, ret |-> 0]
        ELSE [file |-> WriteItems(file, new_items, column_name),
              ret |-> ReturnValue(new_items)]

NoFile == [exists |-> FALSE, text |-> <<>>]

\* files the store may find on disk: none, or complete lines, one key per
\* line, under the optional header
InitialFiles ==
    {NoFile,
     [exists |-> TRUE, text |-> COLUMN_NAME \o <<NL>>],
     [exists |-> TRUE, text |-> COLUMN_NAME \o <<NL>> \o U1 \o <<NL>>],
     [exists |-> TRUE, text |-> U2 \o <<NL>>]}

\* ------------------------------------------------------------ state
VARIABLES
    file,            \* output/all_channels.csv: [exists, text]
    lock,            \* OutputManager._lock: 0 when free, else the holding task
    collected_urls,  \* BatchRunner.collected_urls
    keywords,        \* number of keywords read from the keywords file
    target,          \* run(target=...)
    max_workers,     \* run(max_workers=...)
    pages,           \* per keyword, the channel URLs its search page yields
    mainPc,          \* where BatchRunner.run is
    submitted,       \* futures created so far (keywords 1..submitted)
    workQueue,       \* ThreadPoolExecutor._work_queue
    taskPc,          \* per keyword, where its _scrape_keyword call is
    new_items,       \* per task, append's local new_items
    result,          \* per task, the tuple _scrape_keyword returns
    processed,       \* futures the as_completed loop has handled
    targetReached,   \* the loop took the "Target reached!" branch
    wrote,           \* history: the items each task wrote to the file
    phaseAtDetect,   \* history: where each task was when the target was
                     \* found reached: "early" before its append has
                     \* written, "late" after, "none" when not executing
    file0,           \* history: the file as the run found it
    calls,           \* history: the calls of the store-level client
    config,          \* what ConfigLoader.load finds for config_name
    keywords_exists, \* keywords_path.exists()
    session,         \* per task, the browser session of its scrape() call
    ioFailed,        \* history: the tasks whose append call raised
    waiter,          \* as_completed has installed its waiter on the futures
    finished,        \* as_completed's local list: the futures it yields next
    finished_futures,\* waiter.finished_futures: finished since the last take
    firstBatch,      \* history: the futures found finished at the first look
    doneOrder,       \* history: the tasks in the order they finished
    yieldOrder       \* history: the tasks in the order the loop took them

vars == <<file, lock, collected_urls, keywords, target, max_workers, pages,
          mainPc, submitted, workQueue, taskPc, new_items, result,
          processed, targetReached, wrote, phaseAtDetect, file0, calls,
          config, keywords_exists, session, ioFailed, waiter, finished,
          finished_futures, firstBatch, doneOrder, yieldOrder>>

Tasks == 1..MaxKeywords

\* what a search page can yield: nothing, two channels, the same channel in
\* two result elements
PageLists == {<<>>, <<U1, U2>>, <<U1, U3>>, <<U2, U2>>}

\* what a batch run may find on disk
BatchFiles ==
    {NoFile, [exists |-> TRUE, text |-> COLUMN_NAME \o <<NL>> \o U1 \o <<NL>>]}

NoResult == [new_count |-> 0, error |-> FALSE]

RunningPcs == {"scrape", "lock", "write", "update"}

\* config/<config_name>.yaml: present with a known type, absent, not a YAML
\* mapping, or naming a type that is not in EXTRACTORS
Configs == {"ok", "missing", "invalid", "unknown_type"}

\* no driver yet: WebDriverFactory.session has not been entered
NoSession == [state |-> "none", raised |-> FALSE, quits |-> 0]

Running == {t \in Tasks : taskPc[t] \in RunningPcs}

\* BatchRunner.__init__: the mirror is loaded from the file; nothing of the
\* run has happened yet
InitRun ==
    /\ file \in BatchFiles
    /\ file0 = file
    /\ lock = 0
    /\ collected_urls = load_existing(file, COLUMN_NAME)
    /\ keywords \in 1..MaxKeywords
    /\ target \in 1..MaxTarget
    /\ max_workers \in 1..MaxWorkers
    /\ pages \in [Tasks -> PageLists]
    /\ \A t \in Tasks : t > keywords => pages[t] = <<>>
    /\ submitted = 0
    /\ workQueue = <<>>
    /\ taskPc = [t \in Tasks |-> "new"]
    /\ new_items = [t \in Tasks |-> <<>>]
    /\ result = [t \in Tasks |-> NoResult]
    /\ processed = {}
    /\ targetReached = FALSE
    /\ wrote = [t \in Tasks |-> <<>>]
    /\ phaseAtDetect = [t \in Tasks |-> "none"]
    /\ calls = <<>>
    /\ session = [t \in Tasks |-> NoSession]
    /\ ioFailed = {}
    /\ waiter = FALSE
    /\ finished = <<>>
    /\ finished_futures = <<>>
    /\ firstBatch = {}
    /\ doneOrder = <<>>
    /\ yieldOrder = <<>>

\* BatchRunner.__init__ followed by the head of run() up to the executor, with
\* the keywords file and a usable configuration in place
Init ==
    /\ InitRun
    /\ config = "ok"
    /\ keywords_exists = TRUE
    /\ mainPc = "submit"

envVars == <<keywords, target, max_workers, pages, file0, calls, config,
             keywords_exists>>

\* the state of as_completed, followed only where the loop is modelled
\* future by future
loopVars == <<waiter, finished, finished_futures, firstBatch, doneOrder,
              yieldOrder>>

cfgVars == <<envVars, loopVars>>

taskAux == <<session, ioFailed>>

histVars == <<wrote, phaseAtDetect>>

\* ------------------------------------------------------------ workers
\* executor.submit(self._scrape_keyword, kw) for the next keyword
Submit ==
    /\ mainPc = "submit"
    /\ submitted < keywords
    /\ submitted' = submitted + 1
    /\ taskPc' = [taskPc EXCEPT ![submitted + 1] = "queued"]
    /\ workQueue' = Append(workQueue, submitted + 1)
    /\ mainPc' = IF submitted + 1 = keywords THEN "wait" ELSE "submit"
    /\ UNCHANGED <<file, lock, collected_urls, new_items, result, processed,
                   targetReached, histVars, cfgVars, taskAux>>

\* faulty variant: one pool thread too few
WorkerFree_OffByOne == Cardinality(Running) + 1 < max_workers

\* a pool thread is free to take the next work item
WorkerFree == Cardinality(Running) < max_workers

\* a pool thread takes the head of the work queue and runs it
Start(t) ==
    /\ workQueue # <<>>
    /\ t = Head(workQueue)
    /\ WorkerFree
    /\ workQueue' = Tail(workQueue)
    /\ taskPc' = [taskPc EXCEPT ![t] = "scrape"]
    /\ UNCHANGED <<file, lock, collected_urls, mainPc, submitted, new_items,
                   result, processed, targetReached, histVars, cfgVars, taskAux>>

\* YouTubeScraper(self.config_name) found its configuration and
\* scraper.scrape(keyword) returns; `if results:` decides whether to append
ScrapeReturns(t) ==
    /\ taskPc[t] = "scrape"
    /\ config = "ok"
    /\ taskPc' = [taskPc EXCEPT ![t] = IF pages[t] = <<>> THEN "done" ELSE "lock"]
    /\ UNCHANGED <<file, lock, collected_urls, mainPc, submitted, workQueue,
                   new_items, result, processed, targetReached, histVars, cfgVars, taskAux>>

\* faulty variant: no except clause, the exception leaves _scrape_keyword and
\* the task yields no result tuple
ScrapeRaises_Escapes(t) ==
    /\ taskPc[t] = "scrape"
    /\ taskPc' = [taskPc EXCEPT ![t] = "raised"]
    /\ result' = [result EXCEPT ![t] = [new_count |-> 0, error |-> TRUE]]
    /\ UNCHANGED <<file, lock, collected_urls, mainPc, submitted, workQueue,
                   new_items, processed, targetReached, histVars, cfgVars, taskAux>>

\* YouTubeScraper(...) or scraper.scrape(keyword) raises: except Exception
ScrapeRaises(t) ==
    /\ taskPc[t] = "scrape"
    /\ taskPc' = [taskPc EXCEPT ![t] = "done"]
    /\ result' = [result EXCEPT ![t] = [new_count |-> 0, error |-> TRUE]]
    /\ UNCHANGED <<file, lock, collected_urls, mainPc, submitted, workQueue,
                   new_items, processed, targetReached, histVars, cfgVars, taskAux>>

\* faulty variant: append does not take the lock
CanAcquire_NoLock(t) == TRUE

\* with self._lock: the lock can be taken

CanAcquire(t) == lock = 0

\* append, lines 107-124: take the lock, read the file, filter; nothing new
\* returns 0 and releases the lock at once
AppendRead(t) ==
    /\ taskPc[t] = "lock"
    /\ CanAcquire(t)
    /\ LET existing == load_existing(file, COLUMN_NAME)
           new == NewItems(pages[t], existing, TRUE)
       IN  /\ new_items' = [new_items EXCEPT ![t] = new]
           /\ IF new = <<>>
              THEN /\ taskPc' = [taskPc EXCEPT ![t] = "update"]
                   /\ result' = [result EXCEPT ![t].new_count = 0]
                   /\ lock' = lock
              ELSE /\ taskPc' = [taskPc EXCEPT ![t] = "write"]
                   /\ result' = result
                   /\ lock' = t
    /\ UNCHANGED <<file, collected_urls, mainPc, submitted, workQueue,
                   processed, targetReached, histVars, cfgVars, taskAux>>

\* append, lines 126-135: write the header if the file is new, the new items,
\* release the lock, return len(new_items)
AppendWrite(t) ==
    /\ taskPc[t] = "write"
    /\ file' = WriteItems(file, new_items[t], COLUMN_NAME)
    /\ wrote' = [wrote EXCEPT ![t] = new_items[t]]
    /\ result' = [result EXCEPT ![t].new_count = ReturnValue(new_items[t])]
    /\ lock' = IF lock = t THEN 0 ELSE lock
    /\ taskPc' = [taskPc EXCEPT ![t] = "update"]
    /\ UNCHANGED <<collected_urls, mainPc, submitted, workQueue, new_items,
                   processed, targetReached, phaseAtDetect, cfgVars, taskAux>>

\* append, lines 110-116: opening or reading the existing file raises; the
\* exception leaves `with self._lock` and append, and is caught by the
\* except clause of _scrape_keyword, which returns (keyword, 0, str(e))
AppendReadRaises(t) ==
    /\ taskPc[t] = "lock"
    /\ CanAcquire(t)
    /\ file.exists
    /\ taskPc' = [taskPc EXCEPT ![t] = "done"]
    /\ result' = [result EXCEPT ![t] = [new_count |-> 0, error |-> TRUE]]
    /\ ioFailed' = ioFailed \cup {t}
    /\ UNCHANGED <<file, lock, collected_urls, mainPc, submitted, workQueue,
                   new_items, processed, targetReached, histVars, cfgVars,
                   session>>

\* what a write that raises can leave of the file: nothing done (open
\* failed), or the header of a new file and the first k lines
PartialWrites(f, items) ==
    {[file |-> f, wrote |-> <<>>]}
        \cup {[file |-> WriteItems(f, SubSeq(items, 1, k), COLUMN_NAME),
               wrote |-> SubSeq(items, 1, k)] : k \in 0..Len(items)}

\* append, lines 126-132: opening the file for append or a write raises;
\* the lock is released and _scrape_keyword returns (keyword, 0, str(e))
AppendWriteRaises(t) ==
    /\ taskPc[t] = "write"
    /\ \E w \in PartialWrites(file, new_items[t]) :
         /\ file' = w.file
         /\ wrote' = [wrote EXCEPT ![t] = w.wrote]
    /\ lock' = IF lock = t THEN 0 ELSE lock
    /\ taskPc' = [taskPc EXCEPT ![t] = "done"]
    /\ result' = [result EXCEPT ![t] = [new_count |-> 0, error |-> TRUE]]
    /\ ioFailed' = ioFailed \cup {t}
    /\ UNCHANGED <<collected_urls, mainPc, submitted, workQueue, new_items,
                   processed, targetReached, phaseAtDetect, cfgVars, session>>

\* faulty variant: the mirror is not updated
MirrorAfter_Skip(t) == collected_urls

\* faulty variant: the mirror is assigned instead of updated
MirrorAfter_Replace(t) == Range(pages[t])

\* self.collected_urls.update(urls)
MirrorAfter(t) == collected_urls \cup Range(pages[t])

\* self.collected_urls.update(urls); return keyword, new_count, None
UpdateMirror(t) ==
    /\ taskPc[t] = "update"
    /\ collected_urls' = MirrorAfter(t)
    /\ taskPc' = [taskPc EXCEPT ![t] = "done"]
    /\ UNCHANGED <<file, lock, mainPc, submitted, workQueue, new_items, result,
                   processed, targetReached, histVars, cfgVars, taskAux>>

\* ------------------------------------------------------------ run()
\* len(self.collected_urls) >= target
TargetMet == Cardinality(collected_urls) >= target

\* one turn of `for future in as_completed(futures)`: take a finished future,
\* log its result, test the target
ProcessResult(t) ==
    /\ mainPc = "wait"
    /\ t \in 1..keywords
    /\ taskPc[t] = "done"
    /\ t \notin processed
    /\ processed' = processed \cup {t}
    /\ IF TargetMet
       THEN /\ mainPc' = "shutdown"
            /\ targetReached' = TRUE
            /\ phaseAtDetect' = [u \in Tasks |->
                                IF taskPc[u] \in {"scrape", "lock", "write"} THEN "early"
                                ELSE IF taskPc[u] \in RunningPcs THEN "late"
                                ELSE "none"]
       ELSE /\ mainPc' = IF processed' = 1..keywords THEN "exit" ELSE "wait"
            /\ targetReached' = targetReached
            /\ phaseAtDetect' = phaseAtDetect
    /\ UNCHANGED <<file, lock, collected_urls, submitted, workQueue, taskPc,
                   new_items, result, wrote, cfgVars, taskAux>>

\* faulty variant: shutdown is called without cancel_futures
CancelFutures_False == FALSE

\* the cancel_futures argument of executor.shutdown
CancelFutures == TRUE

\* executor.shutdown(wait=False, cancel_futures=True): the drain loop takes
\* one work item off the queue and cancels its future
CancelOne ==
    /\ mainPc = "shutdown"
    /\ CancelFutures
    /\ workQueue # <<>>
    /\ taskPc' = [taskPc EXCEPT ![Head(workQueue)] = "cancelled"]
    /\ workQueue' = Tail(workQueue)
    /\ UNCHANGED <<file, lock, collected_urls, mainPc, submitted, new_items,
                   result, processed, targetReached, histVars, cfgVars, taskAux>>

\* the drain loop finds the queue empty; shutdown returns; break
ShutdownReturns ==
    /\ mainPc = "shutdown"
    /\ (workQueue = <<>> \/ ~CancelFutures)
    /\ mainPc' = "exit"
    /\ UNCHANGED <<file, lock, collected_urls, submitted, workQueue, taskPc,
                   new_items, result, processed, targetReached, histVars, cfgVars, taskAux>>

\* faulty variant: the pool is left without joining its threads
JoinReady_NoWait == TRUE

\* leaving `with ThreadPoolExecutor(...)`: shutdown(wait=True) joins the pool
\* threads, which end when no work item is running or queued

JoinReady == Running = {} /\ workQueue = <<>>

\* the with block is left and the summary logged
ExitPool ==
    /\ mainPc = "exit"
    /\ JoinReady
    /\ mainPc' = "done"
    /\ UNCHANGED <<file, lock, collected_urls, submitted, workQueue, taskPc,
                   new_items, result, processed, targetReached, histVars, cfgVars, taskAux>>

Next ==
    \/ Submit
    \/ \E t \in Tasks : Start(t)
    \/ \E t \in Tasks : ScrapeReturns(t)
    \/ \E t \in Tasks : ScrapeRaises(t)
    \/ \E t \in Tasks : AppendRead(t)
    \/ \E t \in Tasks : AppendWrite(t)
    \/ \E t \in Tasks : UpdateMirror(t)
    \/ \E t \in Tasks : ProcessResult(t)
    \/ CancelOne
    \/ ShutdownReturns
    \/ ExitPool

Spec == Init /\ [][Next]_vars

\* the main thread and the pool threads keep running, and a task that has
\* started finishes
FairSpec == Spec /\ WF_vars(Next)

\* ------------------------------------------------------------ start of run
\* what the search pages yield in the runs that follow the start of run and
\* the sessions: nothing, or two channels
SessionPages == {<<>>, <<U1, U2>>}

\* faulty variant: the existence of the keywords file is not tested
KeywordsMissing_Unchecked == FALSE

\* not keywords_path.exists()
KeywordsMissing == ~keywords_exists

\* run(), lines 65-77: without keywords file log the error and return, else
\* read the keywords and go on to the pool
ReadKeywords ==
    /\ mainPc = "start"
    /\ mainPc' = IF KeywordsMissing THEN "returned" ELSE "submit"
    /\ UNCHANGED <<file, lock, collected_urls, submitted, workQueue, taskPc,
                   new_items, result, processed, targetReached, histVars,
                   cfgVars, taskAux>>

InitStart ==
    /\ InitRun
    /\ \A t \in Tasks : pages[t] \in SessionPages
    /\ config = "ok"
    /\ keywords_exists \in BOOLEAN
    /\ mainPc = "start"

NextStart ==
    \/ ReadKeywords
    \/ Next

\* run() from its first line, with or without a keywords file
SpecStart == InitStart /\ [][NextStart]_vars

\* ------------------------------------------------------------ faults
\* the run with an environment that can fail: the configuration may be
\* unusable, and reading or writing the key file may raise
InitFaults ==
    /\ InitRun
    /\ config \in Configs
    /\ keywords_exists = TRUE
    /\ mainPc = "submit"

NextFaults ==
    \/ Next
    \/ \E t \in Tasks : AppendReadRaises(t)
    \/ \E t \in Tasks : AppendWriteRaises(t)

SpecFaults == InitFaults /\ [][NextFaults]_vars

\* ------------------------------------------------------------ sessions
\* scraper.scrape(keyword) step by step: WebDriverFactory.session is
\*     driver = self.create(); try: yield driver; finally: driver.quit()
\* and the body of the with statement is the extraction.  session[t].state
\* is where task t is in that scope: "none" before create() has returned,
\* "body" inside the with body, "exiting" when the body has returned or
\* raised, "exited" after the finally clause.

\* self.create() returns the driver and the with body is entered
CreateSession(t) ==
    /\ taskPc[t] = "scrape"
    /\ config = "ok"
    /\ session[t].state = "none"
    /\ session' = [session EXCEPT ![t].state = "body"]
    /\ UNCHANGED <<file, lock, collected_urls, mainPc, submitted, workQueue,
                   taskPc, new_items, result, processed, targetReached,
                   histVars, cfgVars, ioFailed>>

\* YouTubeScraper(...) or self.create() raises: there is no driver and the
\* finally clause is not reached
CreateRaises(t) ==
    /\ session[t].state = "none"
    /\ ScrapeRaises(t)

\* extractor.extract(query) returns (raised = FALSE) or raises (TRUE): the
\* with body is left
ExtractEnds(t, raised) ==
    /\ taskPc[t] = "scrape"
    /\ session[t].state = "body"
    /\ session' = [session EXCEPT ![t].state = "exiting", ![t].raised = raised]
    /\ UNCHANGED <<file, lock, collected_urls, mainPc, submitted, workQueue,
                   taskPc, new_items, result, processed, targetReached,
                   histVars, cfgVars, ioFailed>>

\* faulty variant: quit() follows the yield without try/finally, so it is
\* skipped when the body raises
QuitsAfter_NoFinally(t) ==
    IF session[t].raised THEN session[t].quits ELSE session[t].quits + 1

\* the driver.quit() calls made once the finally clause has run
QuitsAfter(t) == session[t].quits + 1

\* finally: driver.quit()
QuitSession(t) ==
    /\ taskPc[t] = "scrape"
    /\ session[t].state = "exiting"
    /\ session' = [session EXCEPT ![t].state = "exited",
                                  ![t].quits = QuitsAfter(t)]
    /\ UNCHANGED <<file, lock, collected_urls, mainPc, submitted, workQueue,
                   taskPc, new_items, result, processed, targetReached,
                   histVars, cfgVars, ioFailed>>

\* the with statement is left: scrape returns the results, or the exception
\* of the body goes on to the except clause of _scrape_keyword
ScrapeEnds(t) ==
    /\ session[t].state = "exited"
    /\ IF session[t].raised THEN ScrapeRaises(t) ELSE ScrapeReturns(t)

InitSession ==
    /\ Init
    /\ file = NoFile
    /\ \A t \in Tasks : pages[t] \in SessionPages

NextSession ==
    \/ Submit
    \/ \E t \in Tasks : Start(t)
    \/ \E t \in Tasks : CreateSession(t)
    \/ \E t \in Tasks : CreateRaises(t)
    \/ \E t \in Tasks, raised \in BOOLEAN : ExtractEnds(t, raised)
    \/ \E t \in Tasks : QuitSession(t)
    \/ \E t \in Tasks : ScrapeEnds(t)
    \/ \E t \in Tasks : AppendRead(t)
    \/ \E t \in Tasks : AppendWrite(t)
    \/ \E t \in Tasks : UpdateMirror(t)
    \/ \E t \in Tasks : ProcessResult(t)
    \/ CancelOne
    \/ ShutdownReturns
    \/ ExitPool

\* the batch run with every scrape() call followed through its session
SpecSession == InitSession /\ [][NextSession]_vars

\* ------------------------------------------------------------ extractor
\* URLs are strings of the pieces "http", "s", ":", a host part, a path, so
\* that str.startswith("http") is a test of the first piece
HTTP == "http"

\* the literal "https://www.youtube.com" of _extract_channel_data
ORIGIN == <<HTTP, "s", ":", "//www.youtube.com">>

\* found = element.find_element(By.CSS_SELECTOR, selector) and what is read
\* from it: find_element raises ("throws"), the attribute is absent
\* ("null", get_attribute returns None), or there is a string
Throws == [kind |-> "throws", value |-> <<>>]
Null == [kind |-> "null", value |-> <<>>]
Value(v) == [kind |-> "value", value |-> v]

\* BaseExtractor.safe_get_text: found.text.strip(), "" on any exception
safe_get_text(found) ==
    IF found.kind = "value" THEN Strip(found.value) ELSE <<>>

\* BaseExtractor.safe_get_attribute: found.get_attribute(attr) or "", "" on
\* any exception
safe_get_attribute(found) ==
    IF found.kind = "value" THEN found.value ELSE <<>>

\* channel_url.startswith("http")
StartsWithHttp(url) == url # <<>> /\ Head(url) = HTTP

\* ChannelExtractor._extract_channel_data: item gives, per selector, what
\* find_element and the read of the text or attribute yield
extract_channel_data(item) ==
    LET raw_url == safe_get_attribute(item.channel_url)
        channel_url == IF raw_url # <<>> /\ ~StartsWithHttp(raw_url)
                       THEN ORIGIN \o raw_url
                       ELSE raw_url
    IN  [channel_name |-> safe_get_text(item.channel_name),
         channel_url |-> channel_url,
         subscribers |-> safe_get_text(item.subscribers),
         video_count |-> safe_get_text(item.video_count),
         description |-> safe_get_text(item.description)]

\* faulty variant: a record without a name is dropped too
Usable_NeedsName(channel) ==
    channel.channel_url # <<>> /\ channel.channel_name # <<>>

\* if channel.get("channel_url")
Usable(channel) == channel.channel_url # <<>>

\* self.options.get("max_scroll", 5): the scroll steps of scroll_page
max_scroll == 5

\* faulty variant: the page is scrolled before the container is waited for
extract_ScrollsFirst(page) ==
    LET data == [i \in DOMAIN page.items |-> extract_channel_data(page.items[i])]
    IN  IF page.outcome = "get_raises"
        THEN [raised |-> TRUE, scrolls |-> 0, data |-> <<>>, channels |-> <<>>]
        ELSE IF page.outcome = "timeout"
        THEN [raised |-> FALSE, scrolls |-> max_scroll, data |-> <<>>,
              channels |-> <<>>]
        ELSE [raised |-> FALSE, scrolls |-> max_scroll, data |-> data,
              channels |-> SelectSeq(data, Usable)]

\* ChannelExtractor.extract on a page whose load ends in one of three ways:
\* driver.get raises, the container does not appear before the timeout, or
\* it appears and find_elements yields page.items; the result says whether
\* extract raised, how often it scrolled, the dict built per item and the
\* list it returns
extract(page) ==
    LET data == [i \in DOMAIN page.items |-> extract_channel_data(page.items[i])]
    IN  IF page.outcome = "get_raises"
        THEN [raised |-> TRUE, scrolls |-> 0, data |-> <<>>, channels |-> <<>>]
        ELSE IF page.outcome = "timeout"
        THEN [raised |-> FALSE, scrolls |-> 0, data |-> <<>>, channels |-> <<>>]
        ELSE [raised |-> FALSE, scrolls |-> max_scroll, data |-> data,
              channels |-> SelectSeq(data, Usable)]

\* what #main-link's href can be: no element, no attribute, empty, a path,
\* an https URL, a URL of another scheme, a path that begins with "http"
Hrefs ==
    {Throws, Null, Value(<<>>),
     Value(<<"/channel/UC1">>),
     Value(ORIGIN \o <<"/channel/UC2">>),
     Value(<<"ftp", ":", "//host/c">>),
     Value(<<HTTP, "-guide/c">>)}

\* what a text element can be: no element, or a text that begins with a
\* blank
Texts == {Throws, Value(<<SP, "Name">>)}

\* the result items of a page
Items ==
    {[channel_url |-> h, channel_name |-> n, subscribers |-> x,
      video_count |-> x, description |-> x] :
        h \in Hrefs, n \in Texts, x \in {Throws, Value(<<"9">>)}}

RawPages ==
    {[outcome |-> "get_raises", items |-> <<>>]}
        \cup {[outcome |-> "timeout", items |-> its] : its \in SeqsUpTo(Items, 1)}
        \cup {[outcome |-> "loaded", items |-> its] :
                 its \in SeqsUpTo(Items, MaxListLen)}

\* one call of _scrape_keyword run alone on a search page that loads as
\* `page` says
ScrapeKeyword(page) ==
    LET ex == extract(page)
        results == ex.channels
        urls == [i \in DOMAIN SelectSeq(results, Usable) |->
                    SelectSeq(results, Usable)[i].channel_url]
        r == IF ex.raised \/ results = <<>>
             THEN [file |-> file, ret |-> 0]
             ELSE append(file, urls, COLUMN_NAME, TRUE)
        merged == IF ex.raised \/ results = <<>>
                  THEN collected_urls
                  ELSE collected_urls \cup Range(urls)
    IN  /\ file' = r.file
        /\ collected_urls' = merged
        /\ calls' = Append(calls, [op |-> "task", page |-> page, ex |-> ex,
                                   new_count |-> r.ret, error |-> ex.raised,
                                   before |-> file, after |-> r.file,
                                   mirror_before |-> collected_urls,
                                   mirror_after |-> merged])
        /\ UNCHANGED <<lock, keywords, target, max_workers, pages, mainPc,
                       submitted, workQueue, taskPc, new_items, result,
                       processed, targetReached, wrote, phaseAtDetect, file0,
                       config, keywords_exists, session, ioFailed, loopVars>>

InitExtract ==
    /\ InitRun
    /\ keywords = 1
    /\ target = 1
    /\ max_workers = 1
    /\ pages = [t \in Tasks |-> <<>>]
    /\ config = "ok"
    /\ keywords_exists = TRUE
    /\ mainPc = "off"

NextExtract ==
    /\ calls = <<>>
    /\ \E page \in RawPages : ScrapeKeyword(page)

\* one keyword scraped on any page
SpecExtract == InitExtract /\ [][NextExtract]_vars

\* ------------------------------------------------------------ as_completed
\* the orders in which the elements of a set can be listed
Orders(S) == {s \in [1..Cardinality(S) -> S] : Range(s) = S}

Reverse(s) == [i \in 1..Len(s) |-> s[Len(s) + 1 - i]]

\* faulty variant: the batch is yielded as pop() finds it, last finished first
BatchOrder_NoReverse(fs) == Reverse(fs)

\* as_completed takes waiter.finished_futures, reverses it and yields from
\* its end: the futures of a batch come in the order they finished
BatchOrder(fs) == fs

\* a pool thread runs _scrape_keyword(kw) from its first line to its return:
\* the scrape raises, or finds nothing, or its URLs are appended and merged
\* into the mirror; the future is set finished and the waiter, once installed,
\* notes it
RunTask(t) ==
    /\ taskPc[t] = "scrape"
    /\ \E raised \in BOOLEAN :
         LET r == append(file, pages[t], COLUMN_NAME, TRUE)
             merged == ~raised /\ pages[t] # <<>>
         IN  /\ file' = IF merged THEN r.file ELSE file
             /\ collected_urls' = IF merged THEN MirrorAfter(t) ELSE collected_urls
             /\ wrote' = [wrote EXCEPT ![t] =
                            IF merged
                            THEN NewItems(pages[t], load_existing(file, COLUMN_NAME), TRUE)
                            ELSE <<>>]
             /\ result' = [result EXCEPT ![t] =
                             IF raised THEN [new_count |-> 0, error |-> TRUE]
                             ELSE IF merged THEN [new_count |-> r.ret, error |-> FALSE]
                             ELSE NoResult]
    /\ taskPc' = [taskPc EXCEPT ![t] = "done"]
    /\ doneOrder' = Append(doneOrder, t)
    /\ finished_futures' = IF waiter THEN Append(finished_futures, t)
                           ELSE finished_futures
    /\ UNCHANGED <<lock, mainPc, submitted, workQueue, new_items, processed,
                   targetReached, phaseAtDetect, envVars, taskAux, waiter,
                   finished, firstBatch, yieldOrder>>

\* as_completed(futures), entered by the first turn of the for loop: the
\* futures already finished are collected into a set, which is then listed
\* in no particular order, and the waiter is installed on all futures
FirstLook ==
    /\ mainPc = "wait"
    /\ ~waiter
    /\ waiter' = TRUE
    /\ LET done == {t \in 1..keywords : taskPc[t] = "done"}
       IN  /\ firstBatch' = done
           /\ finished' \in Orders(done)
    /\ UNCHANGED <<file, lock, collected_urls, mainPc, submitted, workQueue,
                   taskPc, new_items, result, processed, targetReached,
                   histVars, envVars, taskAux, finished_futures, doneOrder,
                   yieldOrder>>

\* as_completed has yielded its local list and futures are pending: it waits
\* for the waiter's event and takes the futures finished since
TakeBatch ==
    /\ mainPc = "wait"
    /\ waiter
    /\ finished = <<>>
    /\ finished_futures # <<>>
    /\ finished' = BatchOrder(finished_futures)
    /\ finished_futures' = <<>>
    /\ UNCHANGED <<file, lock, collected_urls, mainPc, submitted, workQueue,
                   taskPc, new_items, result, processed, targetReached,
                   histVars, envVars, taskAux, waiter, firstBatch, doneOrder,
                   yieldOrder>>

\* one turn of `for future in as_completed(futures)`: the next future of the
\* local list is yielded, its result logged and the target tested
LoopTurn ==
    /\ mainPc = "wait"
    /\ waiter
    /\ finished # <<>>
    /\ finished' = Tail(finished)
    /\ yieldOrder' = Append(yieldOrder, Head(finished))
    /\ processed' = processed \cup {Head(finished)}
    /\ IF TargetMet
       THEN /\ mainPc' = "shutdown"
            /\ targetReached' = TRUE
       ELSE /\ mainPc' = IF processed' = 1..keywords THEN "exit" ELSE "wait"
            /\ targetReached' = targetReached
    /\ UNCHANGED <<file, lock, collected_urls, submitted, workQueue, taskPc,
                   new_items, result, histVars, envVars, taskAux, waiter,
                   finished_futures, firstBatch, doneOrder>>

NextLoop ==
    \/ Submit
    \/ \E t \in Tasks : Start(t)
    \/ \E t \in Tasks : RunTask(t)
    \/ FirstLook
    \/ TakeBatch
    \/ LoopTurn
    \/ CancelOne
    \/ ShutdownReturns
    \/ ExitPool

\* the runs in which the loop is followed: a new file, and pages that yield
\* nothing or two channels
InitLoop ==
    /\ Init
    /\ file = NoFile
    /\ \A t \in Tasks : pages[t] \in SessionPages

\* the run with each task taken as one step and the loop followed future by
\* future
SpecLoop == InitLoop /\ [][NextLoop]_vars

\* ------------------------------------------------------------ store alone
\* keys a client of the store submits
StoreKeys == {U1, U2}

\* every state variable of the batch run, idle
BatchIdle ==
    /\ lock = 0
    /\ collected_urls = {}
    /\ keywords = 0
    /\ target = 0
    /\ max_workers = 0
    /\ pages = [t \in Tasks |-> <<>>]
    /\ mainPc = "off"
    /\ submitted = 0
    /\ workQueue = <<>>
    /\ taskPc = [t \in Tasks |-> "new"]
    /\ new_items = [t \in Tasks |-> <<>>]
    /\ result = [t \in Tasks |-> NoResult]
    /\ processed = {}
    /\ targetReached = FALSE
    /\ wrote = [t \in Tasks |-> <<>>]
    /\ phaseAtDetect = [t \in Tasks |-> "none"]
    /\ config = "ok"
    /\ keywords_exists = TRUE
    /\ session = [t \in Tasks |-> NoSession]
    /\ ioFailed = {}
    /\ waiter = FALSE
    /\ finished = <<>>
    /\ finished_futures = <<>>
    /\ firstBatch = {}
    /\ doneOrder = <<>>
    /\ yieldOrder = <<>>

batchVars == <<lock, collected_urls, keywords, target, max_workers, pages,
               mainPc, submitted, workQueue, taskPc, new_items, result,
               processed, targetReached, wrote, phaseAtDetect, file0,
               config, keywords_exists, session, ioFailed, loopVars>>

\* output_manager.append(data, MASTER_FILE, COLUMN_NAME, deduplicate) by a
\* single caller: lock, read, filter, write, unlock in one step
StoreAppend(data, deduplicate) ==
    LET r == append(file, data, COLUMN_NAME, deduplicate)
    IN  /\ file' = r.file
        /\ calls' = Append(calls, [op |-> "append", data |-> data,
                                   deduplicate |-> deduplicate, ret |-> r.ret,
                                   loaded |-> {}, before |-> file,
                                   after |-> r.file])
        /\ UNCHANGED batchVars

\* output_manager.load_existing(MASTER_FILE, COLUMN_NAME)
StoreLoad ==
    /\ calls' = Append(calls, [op |-> "load", data |-> <<>>,
                               deduplicate |-> TRUE, ret |-> 0,
                               loaded |-> load_existing(file, COLUMN_NAME),
                               before |-> file, after |-> file])
    /\ UNCHANGED <<file, batchVars>>

InitStore ==
    /\ file \in InitialFiles
    /\ file0 = file
    /\ calls = <<>>
    /\ BatchIdle

StoreNext ==
    /\ Len(calls) < MaxCalls
    /\ \/ \E data \in SeqsUpTo(StoreKeys, MaxListLen), d \in BOOLEAN :
            StoreAppend(data, d)
       \/ StoreLoad

\* a client that calls append and load_existing in any order
SpecStore == InitStore /\ [][StoreNext]_vars

\* the pieces of the strings a caller may hand to append: a word, the header
\* word, a blank
RtPieces == {"u1", "channel_url", SP}

RtStrings == SeqsUpTo(RtPieces, MaxStrLen)

InitRoundTrip ==
    /\ file = NoFile
    /\ file0 = file
    /\ calls = <<>>
    /\ BatchIdle

RoundTripNext ==
    \/ /\ calls = <<>>
       /\ \E data \in SeqsUpTo(RtStrings, MaxListLen) : StoreAppend(data, TRUE)
    \/ /\ Len(calls) = 1
       /\ StoreLoad

\* append(S) on a store without file, then load_existing
SpecRoundTrip == InitRoundTrip /\ [][RoundTripNext]_vars

\* ------------------------------------------------------------ properties
\* the keys a reader finds in the persisted file
Keys(f) == load_existing(f, COLUMN_NAME)

RECURSIVE SumOver(_, _)
SumOver(S, f) ==
    IF S = {} THEN 0
    ELSE LET x == CHOOSE y \in S : TRUE IN f[x] + SumOver(S \ {x}, f)

IsPrefix(a, b) == Len(a) <= Len(b) /\ SubSeq(b, 1, Len(a)) = a

\* tasks whose append call has returned
Appended ==
    {t \in Tasks : /\ taskPc[t] \in {"update", "done"}
                   /\ ~result[t].error
                   /\ pages[t] # <<>>}

\* tasks between append's read of the file and its write
InCritical == {t \in Tasks : taskPc[t] = "write"}

RepeatFreePages == \A t \in Tasks : NoRepeats(pages[t])

\* C1: concurrent appends of repeat-free candidate lists are serialised by
\* the lock: at most one call is between its read and its write, the calls
\* write disjoint sets of keys, none of them already in the file, and the
\* returned counts of the calls that have returned add up to the number of
\* distinct candidate keys of those calls that the file did not hold before.
C1_AppendsSerialised ==
    RepeatFreePages =>
        /\ Cardinality(InCritical) <= 1
        /\ \A t \in InCritical : lock = t
        /\ \A t \in Tasks :
             /\ NoRepeats(wrote[t])
             /\ Range(wrote[t]) \cap Keys(file0) = {}
             /\ \A u \in Tasks \ {t} : Range(wrote[t]) \cap Range(wrote[u]) = {}
        /\ SumOver(Appended, [t \in Tasks |-> result[t].new_count])
             = Cardinality(UNION {Range(pages[t]) : t \in Appended} \ Keys(file0))
        /\ InCritical = {} =>
             Keys(file) = Keys(file0) \cup UNION {Range(pages[t]) : t \in Appended}

\* one call holds the lock between its read and its write while another call
\* with a common candidate key waits for the lock
C1_Witness ==
    /\ RepeatFreePages
    /\ \E t, u \in Tasks :
         /\ taskPc[t] = "write"
         /\ taskPc[u] = "lock"
         /\ Range(pages[t]) \cap Range(pages[u]) # {}

\* C2: append(K1) followed by append(K2), both deduplicating, K1 and K2 sets
\* of keys: the file then holds existing \cup K1 \cup K2 and the second call
\* returns |K2 \ (K1 \cup existing)|.
C2_DedupCorrect ==
    \A i \in 1..(Len(calls) - 1) :
        LET a == calls[i]
            b == calls[i + 1]
            existing == Keys(a.before)
            K1 == Range(a.data)
            K2 == Range(b.data)
        IN  (/\ a.op = "append" /\ b.op = "append"
             /\ a.deduplicate /\ b.deduplicate
             /\ NoRepeats(a.data) /\ NoRepeats(b.data))
            => /\ Keys(b.after) = existing \cup K1 \cup K2
               /\ b.ret = Cardinality(K2 \ (K1 \cup existing))

\* two overlapping key sets, the first already in the file
C2_Witness ==
    /\ Len(calls) = 2
    /\ calls[1].op = "append" /\ calls[2].op = "append"
    /\ calls[1].deduplicate /\ calls[2].deduplicate
    /\ calls[1].data = <<U1>>
    /\ calls[2].data = <<U2, U1>>
    /\ calls[1].ret = 0
    /\ calls[2].ret = 1
    /\ Keys(calls[1].before) = {U1}

\* C3: the second of two deduplicating appends of the same candidates
\* returns 0 and leaves the file as the first left it (not created when it
\* did not exist).
C3_IdempotentAppend ==
    \A i \in 1..(Len(calls) - 1) :
        LET a == calls[i]
            b == calls[i + 1]
        IN  (/\ a.op = "append" /\ b.op = "append"
             /\ a.deduplicate /\ b.deduplicate
             /\ a.data = b.data)
            => /\ b.ret = 0
               /\ b.after = a.after

\* the same two new keys appended twice to a store without file
C3_Witness ==
    /\ Len(calls) = 2
    /\ calls[1].op = "append" /\ calls[2].op = "append"
    /\ calls[1].deduplicate /\ calls[2].deduplicate
    /\ calls[1].data = <<U1, U2>>
    /\ calls[2].data = <<U1, U2>>
    /\ calls[1].ret = 2
    /\ ~calls[1].before.exists

\* the round trip has been made: append on a missing file, then load
RoundTripMade ==
    /\ Len(calls) = 2
    /\ calls[1].op = "append"
    /\ ~calls[1].before.exists
    /\ calls[2].op = "load"

\* a key the line format carries unchanged: not empty, no blank at either
\* end, no line break, not the header word
CleanKey(k) ==
    /\ k # <<>>
    /\ Strip(k) = k
    /\ NL \notin Range(k)
    /\ k # COLUMN_NAME

\* C4 as stated: for every set S of newline-free strings, load_existing after
\* append(S) on a store without file returns exactly S.
C4_RoundTripAnyString ==
    RoundTripMade =>
        ((\A k \in Range(calls[1].data) : NL \notin Range(k))
            => calls[2].loaded = Range(calls[1].data))

\* C4 amended: the round trip returns exactly S when every key of S is not
\* empty, has no leading or trailing whitespace, has no line break and is
\* not the column name.
C4_RoundTripCleanKeys ==
    RoundTripMade =>
        ((\A k \in Range(calls[1].data) : CleanKey(k))
            => calls[2].loaded = Range(calls[1].data))

\* two clean keys, one of them of two pieces, make the round trip
C4_Witness ==
    /\ RoundTripMade
    /\ calls[1].data = <<<<"u1">>, <<"u1", "channel_url">>>>
    /\ calls[2].loaded = {<<"u1">>, <<"u1", "channel_url">>}

\* C5: the persisted file only grows: once it exists it exists, every step
\* leaves the text written so far in place as a prefix, and no key leaves
\* the set of keys.
C5_FileOnlyGrows ==
    [][/\ file.exists => file'.exists
       /\ IsPrefix(file.text, file'.text)
       /\ Keys(file) \subseteq Keys(file')]_vars

\* the run is over after an early stop with a cancelled task and a failed
\* task, and the file has grown under two writers
C5_Witness ==
    /\ mainPc = "done"
    /\ Len(file.text) > Len(file0.text)
    /\ file0.exists
    /\ \E t \in Tasks : wrote[t] # <<>>
    /\ \E t \in Tasks : result[t].error

\* tasks the run has started and whose scrape did not raise
Succeeded == {t \in Tasks : taskPc[t] = "done" /\ ~result[t].error}

Cancelled == {t \in Tasks : taskPc[t] = "cancelled"}

\* the keys a task added to the file: its new-key delta
Delta == [t \in Tasks |-> Cardinality(Range(wrote[t]))]

\* C6: when the new keys the tasks added, counted from the loaded baseline,
\* reach the target, run ends with at least target collected keys.
C6_TargetTotalAtEnd ==
    (/\ mainPc = "done"
     /\ Cardinality(Keys(file0)) + SumOver(Tasks, Delta) >= target)
        => Cardinality(collected_urls) >= target

\* an early stop: the deltas passed the target before the last task ran,
\* which was cancelled
C6_Witness ==
    /\ mainPc = "done"
    /\ targetReached
    /\ Cancelled # {}
    /\ Cardinality(Keys(file0)) < target
    /\ Cardinality(Keys(file0)) + SumOver(Tasks, Delta) >= target
    /\ Cardinality(collected_urls) >= target

\* C7: run terminates; when it has returned every submitted task is
\* resolved (done or cancelled) and either the loop saw every result or the
\* target was reached; while run waits in the final join no task is left
\* that has not started.
C7_RunTerminates ==
    /\ <>(mainPc = "done")
    /\ [](mainPc = "done" =>
            /\ \A t \in 1..keywords : taskPc[t] \in {"done", "cancelled"}
            /\ (targetReached \/ processed = 1..keywords)
            /\ (Cancelled # {} => targetReached))
    /\ []((mainPc = "exit" /\ targetReached) =>
            \A t \in 1..keywords : taskPc[t] \notin {"new", "queued"})

\* run has returned after an early stop, without having seen every result
C7_Witness ==
    /\ mainPc = "done"
    /\ Cancelled # {}
    /\ processed # 1..keywords

\* C8 as stated: once the loop has found the target reached, no task that
\* is still queued is ever started.
C8_NoStartAfterTargetSeen ==
    [][targetReached =>
         \A t \in Tasks : taskPc[t] = "queued" => taskPc'[t] # "scrape"]_vars

\* C8 amended: once the cancellation has drained the work queue (shutdown
\* has returned) no task is left queued and none is started any more; a
\* cancelled task stays cancelled, has written nothing and returned nothing.
C8_NoStartAfterCancel ==
    /\ []((targetReached /\ mainPc \in {"exit", "done"}) =>
            \A t \in Tasks : taskPc[t] # "queued")
    /\ [][(targetReached /\ mainPc \in {"exit", "done"}) =>
            \A t \in Tasks : taskPc'[t] = "scrape" => taskPc[t] = "scrape"]_vars
    /\ [][\A t \in Tasks :
            taskPc[t] = "cancelled" => taskPc'[t] = "cancelled"]_vars
    /\ [](\A t \in Cancelled : wrote[t] = <<>> /\ result[t] = NoResult)

\* the cancellation is over and has cancelled a task that had new keys
C8_Witness ==
    /\ targetReached
    /\ mainPc = "exit"
    /\ \E t \in Cancelled : Range(pages[t]) \ Keys(file) # {}

\* C9: a task that was executing when the target was found reached is done
\* when run returns, and unless its scrape raised all its URLs are in the
\* file and in collected_urls.
C9_InFlightMerged ==
    mainPc = "done" =>
        \A t \in Tasks :
            phaseAtDetect[t] \in {"early", "late"} =>
                /\ taskPc[t] = "done"
                /\ ~result[t].error =>
                     /\ Range(pages[t]) \subseteq Keys(file)
                     /\ Range(pages[t]) \subseteq collected_urls

\* a task still scraping when the target was reached has written new keys
\* by the time run returns
C9_Witness ==
    /\ mainPc = "done"
    /\ targetReached
    /\ \E t \in Tasks : phaseAtDetect[t] = "early" /\ wrote[t] # <<>>

\* the scenario of the specification: terms a and b, two workers, target 1,
\* no file, a yields [u1,u2], b yields [u1,u3], neither scrape raises
Scenario ==
    /\ keywords = 2
    /\ max_workers = 2
    /\ target = 1
    /\ file0 = NoFile
    /\ pages[1] = <<U1, U2>>
    /\ pages[2] = <<U1, U3>>
    /\ \A t \in Tasks : ~result[t].error

\* C10 as stated: in the scenario the final store is {u1,u2,u3} under every
\* schedule and completion order.
C10_FinalStoreIsUnion ==
    (mainPc = "done" /\ Scenario) => Keys(file) = {U1, U2, U3}

\* C10 amended: the final store holds the keys found at the start and the
\* URLs of exactly the tasks that ran without raising (a task still queued at
\* the cancellation is cancelled and adds nothing); in the scenario the first
\* term always runs, so the store is {u1,u2} or {u1,u2,u3}, and it is
\* {u1,u2,u3} exactly when the second term was not cancelled.
C10_FinalStoreIsUnionOfStarted ==
    mainPc = "done" =>
        /\ Keys(file) = Keys(file0) \cup UNION {Range(pages[t]) : t \in Succeeded}
        /\ Scenario =>
             /\ taskPc[1] = "done"
             /\ Keys(file) \in {{U1, U2}, {U1, U2, U3}}
             /\ (Keys(file) = {U1, U2, U3}) <=> (taskPc[2] = "done")

\* the scenario has ended with the second term cancelled
C10_Witness ==
    /\ mainPc = "done"
    /\ Scenario
    /\ taskPc[2] = "cancelled"
    /\ Keys(file) = {U1, U2}

\* tasks that returned (keyword, 0, error)
Failed == {t \in Tasks : result[t].error}

\* how far the run has come: every step of the main thread or of a pool
\* thread moves one of them forward
PcRank(pc) ==
    CASE pc = "new" -> 0
      [] pc = "queued" -> 1
      [] pc = "scrape" -> 2
      [] pc = "lock" -> 3
      [] pc = "write" -> 4
      [] pc = "update" -> 5
      [] OTHER -> 6

MainRank ==
    CASE mainPc = "submit" -> 0
      [] mainPc = "wait" -> 1
      [] mainPc = "shutdown" -> 2
      [] mainPc = "exit" -> 3
      [] OTHER -> 4

Progress ==
    MainRank + submitted + Cardinality(processed)
        + SumOver(Tasks, [t \in Tasks |-> PcRank(taskPc[t])])

\* C11: a task whose scraper construction, session creation or extraction
\* raises ends with the result (keyword, 0, error) and has written nothing;
\* the run is not aborted: after a failure it is never stuck before its
\* summary and every step brings it nearer to it, so it terminates; the loop
\* has handled the failed task's result unless the target stopped it first,
\* and every task that ran without raising has its URLs in the file and in
\* collected_urls.
C11_FailureIsolated ==
    /\ [](\A t \in Failed :
            /\ taskPc[t] = "done"
            /\ result[t].new_count = 0
            /\ wrote[t] = <<>>)
    /\ [](mainPc = "done" =>
            /\ targetReached \/ Failed \subseteq processed
            /\ \A u \in Succeeded :
                 Range(pages[u]) \subseteq (Keys(file) \cap collected_urls))
    /\ [](Failed # {} => (mainPc = "done" \/ ENABLED Next))
    /\ [][Failed # {} => Progress' > Progress]_vars

\* the run is over; the first task failed, was handled by the loop, and the
\* second task then added new keys
C11_Witness ==
    /\ mainPc = "done"
    /\ 1 \in Failed
    /\ 1 \in processed
    /\ 2 \in Succeeded
    /\ wrote[2] # <<>>
    /\ Range(pages[2]) \subseteq collected_urls

\* C12 as stated: once reading or writing the key file has raised inside
\* append, the run is over as a failure: no later step merges a result into
\* the file or into collected_urls, and run does not reach its summary.
C12_StoreFailureIsFatal ==
    /\ [](ioFailed # {} => mainPc # "done")
    /\ [][ioFailed # {} =>
            (file' = file /\ collected_urls' = collected_urls)]_vars

\* C13 as stated: with a configuration file that is missing or invalid, or
\* that names an unknown extractor type, the run does not begin: no task is
\* submitted to the pool or executed, and run does not reach its summary.
C13_BadConfigStopsAtStartup ==
    config # "ok" =>
        /\ submitted = 0
        /\ \A t \in Tasks : taskPc[t] = "new"
        /\ mainPc # "done"

\* tasks whose session scope has been entered
WithSession == {t \in Tasks : session[t].state # "none"}

\* C14: the session of a task is quit exactly once when its scope exits,
\* whether the extraction returned or raised, and never before; a session
\* exists only while its own task is inside scrape(), a task that was never
\* started has none, and when run returns every session that was created
\* has been quit.
C14_SessionQuitOnce ==
    \A t \in Tasks :
        /\ session[t].quits <= 1
        /\ session[t].state = "exited" => session[t].quits = 1
        /\ session[t].state \in {"body", "exiting"} =>
             (session[t].quits = 0 /\ taskPc[t] = "scrape")
        /\ taskPc[t] \in {"new", "queued", "cancelled"} =>
             session[t] = NoSession
        /\ mainPc = "done" =>
             (t \in WithSession => session[t].state = "exited")

\* run has returned; one session was left by a raising extraction, another
\* by a returning one, and both have been quit
C14_Witness ==
    /\ mainPc = "done"
    /\ \E t, u \in WithSession :
         /\ session[t].raised /\ session[t].quits = 1 /\ result[t].error
         /\ ~session[u].raised /\ session[u].quits = 1 /\ ~result[u].error

\* the calls of _scrape_keyword made so far
TaskCalls == {c \in Range(calls) : c.op = "task"}

\* C15: when the result container does not appear within the timeout,
\* extract returns an empty list without raising and without a scroll step,
\* and the task returns (keyword, 0, None) and leaves the file and
\* collected_urls as they were.
C15_TimeoutIsEmptyResult ==
    \A c \in TaskCalls :
        c.page.outcome = "timeout" =>
            /\ ~c.ex.raised
            /\ c.ex.channels = <<>>
            /\ c.ex.scrolls = 0
            /\ c.new_count = 0
            /\ ~c.error
            /\ c.after = c.before
            /\ c.mirror_after = c.mirror_before

\* the container of a page that holds a channel did not appear in time, and
\* the task has returned with the existing file untouched
C15_Witness ==
    \E c \in TaskCalls :
        /\ c.page.outcome = "timeout"
        /\ c.page.items # <<>>
        /\ c.page.items[1].channel_url = Value(<<"/channel/UC1">>)
        /\ c.before.exists
        /\ c.after = c.before
        /\ c.new_count = 0

\* the href read from an item is a non-empty string
HasRawUrl(item) ==
    item.channel_url.kind = "value" /\ item.channel_url.value # <<>>

TextFields == {"channel_name", "subscribers", "video_count", "description"}

\* C16: on a page that loaded, whatever sub-elements are present, missing
\* or throwing, extract does not raise; no record of its output has an
\* empty channel_url; every item whose href is a non-empty string has its
\* record in the output, once and in page order; and a field whose
\* sub-element is missing or throws is the empty string in the record.
C16_UsableRecordsOnly ==
    \A c \in TaskCalls :
        c.page.outcome = "loaded" =>
            LET items == c.page.items
                with_url == {i \in DOMAIN items : HasRawUrl(items[i])}
            IN  /\ ~c.ex.raised
                /\ ~c.error
                /\ \A r \in Range(c.ex.channels) : r.channel_url # <<>>
                /\ Len(c.ex.channels) = Cardinality(with_url)
                /\ \A i \in with_url :
                     \E k \in DOMAIN c.ex.channels :
                        /\ c.ex.channels[k] = c.ex.data[i]
                        /\ k = Cardinality({j \in with_url : j <= i})
                /\ \A i \in DOMAIN items :
                     /\ \A f \in TextFields :
                          items[i][f].kind # "value" => c.ex.data[i][f] = <<>>
                     /\ ~HasRawUrl(items[i]) => c.ex.data[i].channel_url = <<>>

\* a page of two items: the first has a URL but no name element and is
\* returned with an empty name, the second has no link element and is
\* dropped
C16_Witness ==
    \E c \in TaskCalls :
        /\ c.page.outcome = "loaded"
        /\ Len(c.page.items) = 2
        /\ c.page.items[1].channel_url = Value(<<"/channel/UC1">>)
        /\ c.page.items[1].channel_name = Throws
        /\ c.page.items[2].channel_url = Throws
        /\ Len(c.ex.channels) = 1
        /\ c.ex.channels[1].channel_name = <<>>
        /\ c.ex.channels[1].channel_url # <<>>

\* the words a URL scheme is written with here
SchemeWords == {HTTP, "s", "ftp"}

\* the URL starts with a scheme: scheme words up to a first ":"
HasScheme(url) ==
    \E i \in 2..Len(url) :
        /\ url[i] = ":"
        /\ \A j \in 1..(i - 1) : url[j] \in SchemeWords

\* C17 as stated: for every non-empty raw URL the channel_url of the record
\* is the origin followed by the raw URL when the raw URL does not start
\* with a scheme, and the raw URL itself when it does.
C17_SchemeDecidesNormalisation ==
    \A c \in TaskCalls :
        c.page.outcome = "loaded" =>
            \A i \in DOMAIN c.page.items :
                HasRawUrl(c.page.items[i]) =>
                    LET raw == c.page.items[i].channel_url.value
                    IN  c.ex.data[i].channel_url =
                            IF HasScheme(raw) THEN raw ELSE ORIGIN \o raw

\* C18: without a keywords file run logs the error and returns; it never
\* gets past its first test: no task is submitted, queued or started, no
\* session is created, and the file and collected_urls stay as they were.
C18_MissingKeywordsFile ==
    ~keywords_exists =>
        /\ mainPc \in {"start", "returned"}
        /\ mainPc = "start" => ENABLED ReadKeywords
        /\ submitted = 0
        /\ workQueue = <<>>
        /\ \A t \in Tasks : taskPc[t] = "new" /\ session[t] = NoSession
        /\ file = file0
        /\ collected_urls = Keys(file0)

\* run has returned early and the existing file is as it was
C18_Witness ==
    /\ ~keywords_exists
    /\ mainPc = "returned"
    /\ file.exists
    /\ file = file0

\* C19 as stated: a worker changes collected_urls only while it holds the
\* lock of the store, in the critical section of its append, so that
\* whenever the lock is free the mirror holds every key of the file.
C19_MirrorUpdatedUnderLock ==
    /\ [][\A t \in Tasks :
            (taskPc[t] = "update" /\ taskPc'[t] = "done") => lock = t]_vars
    /\ [](lock = 0 => Keys(file) \subseteq collected_urls)

\* a line without its terminator
Chomp(line) ==
    IF line # <<>> /\ line[Len(line)] = NL
    THEN SubSeq(line, 1, Len(line) - 1)
    ELSE line

\* the keys the file holds: its lines, the header line apart
StoredKeys(f) ==
    LET lines == FileLines(f.text)
    IN  {Chomp(lines[i]) : i \in {j \in DOMAIN lines :
                                     ~(j = 1 /\ Chomp(lines[j]) = COLUMN_NAME)}}

\* tasks whose append has returned and whose mirror update is still to come
BetweenAppendAndUpdate == {t \in Tasks : taskPc[t] = "update"}

\* C20: collected_urls is the set of keys of the file when the runner is
\* constructed, whenever no task is between its append and its mirror
\* update, and when run returns.
C20_MirrorEqualsFile ==
    /\ (mainPc = "submit" /\ submitted = 0) => collected_urls = StoredKeys(file)
    /\ BetweenAppendAndUpdate = {} => collected_urls = StoredKeys(file)
    /\ mainPc = "done" => collected_urls = StoredKeys(file)

\* run has returned; both tasks added keys to a file that held one, and the
\* mirror holds what the file holds
C20_Witness ==
    /\ mainPc = "done"
    /\ file0.exists
    /\ wrote[1] # <<>>
    /\ wrote[2] # <<>>
    /\ Cardinality(collected_urls) = 3
    /\ collected_urls = StoredKeys(file)

\* where a task stands in an order
Pos(s, x) == CHOOSE i \in DOMAIN s : s[i] = x

\* pairs of turns of the loop that took two results against the order in
\* which the tasks finished
Inversions ==
    {p \in (DOMAIN yieldOrder) \X (DOMAIN yieldOrder) :
        /\ p[1] < p[2]
        /\ Pos(doneOrder, yieldOrder[p[1]]) > Pos(doneOrder, yieldOrder[p[2]])}

\* tasks that finished and whose result the loop has not taken
Unprocessed == Range(doneOrder) \ Range(yieldOrder)

\* the loop takes results in the order they become available to it: two
\* results are taken against finishing order only when both were there
\* already at the first look of the loop
OrderKept ==
    \A p \in Inversions :
        {yieldOrder[p[1]], yieldOrder[p[2]]} \subseteq firstBatch

\* C21 as stated: every task that completes has its result processed by the
\* loop exactly once, in the order in which the results became available,
\* none skipped, tasks completing after the target was reached included.
C21_EveryCompletedTaskProcessedInOrder ==
    /\ NoRepeats(yieldOrder)
    /\ Range(yieldOrder) \subseteq Range(doneOrder)
    /\ OrderKept
    /\ mainPc = "done" => Unprocessed = {}

\* C21, amended: the loop takes a result only after its task has finished and
\* never twice; results that finish after the loop has begun to wait are
\* taken in finishing order, those already finished at its first look in no
\* particular order; a run that ends without reaching the target has processed
\* every task; once the target is found reached the loop takes no further
\* result, whatever finishes afterwards.
C21_ProcessedOnceUntilTarget ==
    /\ [](/\ NoRepeats(yieldOrder)
          /\ Range(yieldOrder) = processed
          /\ Range(yieldOrder) \subseteq Range(doneOrder)
          /\ OrderKept
          /\ (mainPc \in {"exit", "done"} /\ ~targetReached)
                => (Unprocessed = {} /\ processed = 1..keywords))
    /\ [][targetReached => yieldOrder' = yieldOrder]_vars

\* the target was reached, a task finished afterwards and the run ended
\* without the loop taking its result
C21_Witness ==
    /\ mainPc = "done"
    /\ targetReached
    /\ \E t \in Unprocessed :
         Pos(doneOrder, t) > Pos(doneOrder, yieldOrder[Len(yieldOrder)])

\* two results taken against finishing order, both finished before the first
\* look of the loop
C21_FirstBatchInverted == Inversions # {}

\* the count each task's append call returned
Returned == [t \in Tasks |-> result[t].new_count]

\* len(self.collected_urls) as run logs it before the pool starts
Baseline == Cardinality(Keys(file0))

\* the loop takes a result in this step
LoopTakesResult == processed' # processed

\* C22 as stated, for runs whose pages list no channel twice: the total the
\* loop compares with the target after processing a task is the baseline plus
\* the counts append returned to the tasks processed so far, and the total
\* reported at the end is the baseline plus all returned counts.
C22_TotalIsBaselinePlusProcessedCounts ==
    [][RepeatFreePages =>
         /\ LoopTakesResult =>
              Cardinality(collected_urls) = Baseline + SumOver(processed', Returned)
         /\ mainPc' = "done" =>
              Cardinality(collected_urls') = Baseline + SumOver(Tasks, Returned')]_vars

\* C22, amended: the total the loop compares with the target is the number
\* of distinct keys of the baseline and of the lists of all tasks that have
\* merged theirs, processed or not; it is at least the baseline plus the keys
\* the processed tasks added and at most the baseline plus the counts of the
\* append calls that have returned. At the end it is the baseline plus the
\* keys the tasks added, which is the baseline plus the returned counts
\* exactly when no call wrote a key twice, and less otherwise.
C22_TotalCountsMergedKeys ==
    /\ [][LoopTakesResult =>
            /\ collected_urls =
                 Keys(file0) \cup UNION {Range(pages[t]) : t \in Succeeded}
            /\ Cardinality(collected_urls) >= Baseline + SumOver(processed', Delta)
            /\ Cardinality(collected_urls) <= Baseline + SumOver(Appended, Returned)]_vars
    /\ [](mainPc = "done" =>
            /\ Cardinality(collected_urls) = Baseline + SumOver(Tasks, Delta)
            /\ Cardinality(collected_urls) <= Baseline + SumOver(Tasks, Returned)
            /\ (Cardinality(collected_urls) = Baseline + SumOver(Tasks, Returned))
                 <=> (\A t \in Tasks : NoRepeats(wrote[t])))

\* the loop has processed one task and found the target reached with a total
\* that counts the keys of a second task, finished and not yet processed
C22_Witness ==
    /\ RepeatFreePages
    /\ mainPc = "shutdown"
    /\ Cardinality(processed) = 1
    /\ \E u \in Tasks \ processed : taskPc[u] = "done" /\ wrote[u] # <<>>
    /\ Cardinality(collected_urls) > Baseline + SumOver(processed, Returned)

\* the lines of the file that consist of the header token
HeaderLines(f) ==
    LET lines == FileLines(f.text)
    IN  {i \in DOMAIN lines : Chomp(lines[i]) = COLUMN_NAME}

\* C23: a file that append created has the header token as its first line
\* and on no other line, whatever the interleaving of the appends; the
\* header is written only by the append that creates the file: a step that
\* adds a header line finds no file and leaves one.
C23_HeaderOnceOnTop ==
    /\ []((file.exists /\ ~file0.exists) =>
            /\ IsPrefix(COLUMN_NAME \o <<NL>>, file.text)
            /\ HeaderLines(file) = {1})
    /\ [][HeaderLines(file') # HeaderLines(file) =>
            (~file.exists /\ file'.exists /\ HeaderLines(file') = {1})]_vars

\* the run found no file; two tasks have written to the file the first of
\* them created
C23_Witness ==
    /\ ~file0.exists
    /\ file.exists
    /\ \A t \in 1..2 : wrote[t] # <<>>
    /\ HeaderLines(file) = {1}
    /\ Len(FileLines(file.text)) >= 4

\* the data lines of the file in file order: its lines, the header line apart
DataLines(f) ==
    LET lines == FileLines(f.text)
        body == IF lines # <<>> /\ Chomp(lines[1]) = COLUMN_NAME
                THEN Tail(lines) ELSE lines
    IN  [i \in 1..Len(body) |-> Chomp(body[i])]

\* every append call so far was made with deduplicate=True
AllDeduplicating ==
    \A i \in DOMAIN calls : calls[i].op = "append" => calls[i].deduplicate

C25_MirrorWithinFile ==
    /\ collected_urls \subseteq StoredKeys(file)
    /\ targetReached =>
         /\ Cardinality(collected_urls) >= target
         /\ Cardinality(StoredKeys(file)) >= target

\* the loop has declared a target of two reached on a run that found no
\* file, while a task that has written new keys has yet to merge them into
\* the mirror
C25_Witness ==
    /\ targetReached
    /\ target = 2
    /\ ~file0.exists
    /\ \E t \in BetweenAppendAndUpdate : wrote[t] # <<>>
    /\ collected_urls # StoredKeys(file)
    /\ collected_urls \subseteq StoredKeys(file)

====
